---- MODULE Spec2Model ----
(***************************************************************************)
(* USB keyboard controller for ZX Spectrum (firmware/Core/Src/my.c).       *)
(* The poll loop MyIdle builds the keyboard matrix from the USB report,    *)
(* precomputes the bus response table into the unpublished buffer and      *)
(* publishes it; EXTI9_5_IRQHandler answers the bus from the published     *)
(* table and may preempt the poll loop between any two of its steps.       *)
(***************************************************************************)
EXTENDS Integers, Sequences, FiniteSets, TLC

VARIABLES
    pc,               \* position of the poll loop inside MyIdle ("idle" = not in MyIdle)
    info,             \* *info: the report the last matrix calculation read
    ret,              \* how the last MyIdle invocation returned: "none", "skipped", "done"
    zx_matrix,        \* uint8_t zx_matrix[8], as left by the last matrix calculation
    sinclair_joystic, \* static uint8_t sinclair_joystic
    zx_prepared,      \* which buffer the pointer zx_prepared designates: "a" or "b"
    zx_prepared_a,    \* static uint8_t zx_prepared_a[0x100]
    zx_prepared_b,    \* static uint8_t zx_prepared_b[0x100]
    a,                \* local pointer a of MyIdle: the buffer being written, "a" or "b"
    i,                \* loop counter of the precompute loop
    delay,            \* volatile unsigned delay of the magic sequence
    primask,          \* 1 while interrupts are disabled (__disable_irq), 0 otherwise
    exti_pr,          \* the pending bit of the address-bus interrupt
    GPIOB_IDR,        \* low 8 bits of GPIOB->IDR: the address bus
    GPIOA_ODR,        \* GPIOA->ODR: the data bus
    GPIOA_6,          \* GPIOA->IDR pin 6: the M1 instruction-fetch strobe
    GPIOC_13,         \* GPIOC pin 13: onboard led (0 = lit)
    GPIOB_8,          \* GPIOB pin 8: reset line (0 = asserted)
    GPIOB_9,          \* GPIOB pin 9: magic button (0 = asserted)
    uart,             \* the usb_key values reported by DebugOutput in the last matrix calculation
    wr,               \* writes made by the current/last MyIdle invocation, in order
    keyboard,         \* environment: the attached keyboard, which fixes the reports it can deliver
    published_matrix  \* history: the zx_matrix of the cycle that last executed line 265

vars == <<pc, info, ret, zx_matrix, sinclair_joystic, zx_prepared, zx_prepared_a,
          zx_prepared_b, a, i, delay, primask, exti_pr, GPIOB_IDR, GPIOA_ODR,
          GPIOA_6, GPIOC_13, GPIOB_8, GPIOB_9, uart, wr, keyboard, published_matrix>>

----------------------------------------------------------------------------
(* Machine arithmetic *)

Byte == 0..255

Bit(n, b) == (n \div (2 ^ b)) % 2

RECURSIVE BitOrFrom(_, _, _)
BitOrFrom(x, y, b) ==
    IF b = 16 THEN 0
    ELSE (IF Bit(x, b) = 1 \/ Bit(y, b) = 1 THEN 2 ^ b ELSE 0) + BitOrFrom(x, y, b + 1)

\* x | y on operands below 2^16 (every operand of | in my.c is below 2^8)
BitOr(x, y) == IF x = 0 THEN y ELSE IF y = 0 THEN x ELSE BitOrFrom(x, y, 0)

RECURSIVE BitAndFrom(_, _, _)
BitAndFrom(x, y, b) ==
    IF b = 16 THEN 0
    ELSE (IF Bit(x, b) = 1 /\ Bit(y, b) = 1 THEN 2 ^ b ELSE 0) + BitAndFrom(x, y, b + 1)

\* x & y on operands below 2^16
BitAnd(x, y) == IF x = 0 \/ y = 0 THEN 0 ELSE IF y = 1 THEN x % 2 ELSE BitAndFrom(x, y, 0)

\* (uint8_t)~x for an unsigned x: the low byte of the complement of x is the
\* complement of the low byte of x
NotU8(x) == 255 - (x % 256)

\* conversion to uint8_t
U8(x) == x % 256

\* (unsigned)x < n for an int x and a small constant n: a negative x converts
\* to x + 2^32, which is above every such n
UnsignedLess(x, n) == x >= 0 /\ x < n

----------------------------------------------------------------------------
(* Constants of my.c *)

BITS_PER_BYTE == 8
USB_SHIFTS_COUNT == 8
KEY_A == 4
KEY_RIGHTARROW == 79

ZX_A_SHIFT == 3
ZX_A_MASK == 7
ZX_D_MASK == 7
ZX(A, D) == BitOr(BitAnd(A, ZX_A_MASK) * (2 ^ ZX_A_SHIFT), BitAnd(D, ZX_D_MASK))
ZXM_CAP == 128
ZXM_SYM == 64
ZX_GET_ADDRESS(KEY) == BitAnd(KEY \div (2 ^ ZX_A_SHIFT), ZX_A_MASK)
ZX_GET_DATA(KEY) == BitAnd(KEY, ZX_D_MASK)

ZX_1 == ZX(3, 0)
ZX_2 == ZX(3, 1)
ZX_3 == ZX(3, 2)
ZX_4 == ZX(3, 3)
ZX_5 == ZX(3, 4)
ZX_6 == ZX(4, 4)
ZX_7 == ZX(4, 3)
ZX_8 == ZX(4, 2)
ZX_9 == ZX(4, 1)
ZX_0 == ZX(4, 0)
ZX_Q == ZX(2, 0)
ZX_W == ZX(2, 1)
ZX_E == ZX(2, 2)
ZX_R == ZX(2, 3)
ZX_T == ZX(2, 4)
ZX_Y == ZX(5, 4)
ZX_U == ZX(5, 3)
ZX_I == ZX(5, 2)
ZX_O == ZX(5, 1)
ZX_P == ZX(5, 0)
ZX_A == ZX(1, 0)
ZX_S == ZX(1, 1)
ZX_D == ZX(1, 2)
ZX_F == ZX(1, 3)
ZX_G == ZX(1, 4)
ZX_H == ZX(6, 4)
ZX_J == ZX(6, 3)
ZX_K == ZX(6, 2)
ZX_L == ZX(6, 1)
ZX_ENTER == ZX(6, 0)
ZX_CAPS == ZX(0, 0)
ZX_Z == ZX(0, 1)
ZX_X == ZX(0, 2)
ZX_C == ZX(0, 3)
ZX_V == ZX(0, 4)
ZX_B == ZX(7, 4)
ZX_N == ZX(7, 3)
ZX_M == ZX(7, 2)
ZX_SYM == ZX(7, 1)
ZX_SPACE == ZX(7, 0)
ZX_EDIT == BitOr(ZX_1, ZXM_CAP)
ZX_CAPSL == BitOr(ZX_2, ZXM_CAP)
ZX_TRUVI == BitOr(ZX_3, ZXM_CAP)
ZX_INVVI == BitOr(ZX_4, ZXM_CAP)
ZX_LEFT == BitOr(ZX_5, ZXM_CAP)
ZX_DOWN == BitOr(ZX_6, ZXM_CAP)
ZX_UP == BitOr(ZX_7, ZXM_CAP)
ZX_RIGHT == BitOr(ZX_8, ZXM_CAP)
ZX_GRAPH == BitOr(ZX_9, ZXM_CAP)
ZX_DEL == BitOr(ZX_0, ZXM_CAP)
ZX_BREAK == BitOr(ZX_SPACE, ZXM_CAP)
ZX_EXTMO == BitOr(ZX_SYM, ZXM_CAP)
ZX_GRAVE == BitOr(ZX_7, ZXM_SYM)
ZX_OPEN == BitOr(ZX_8, ZXM_SYM)
ZX_CLOSE == BitOr(ZX_9, ZXM_SYM)
ZX_LT == BitOr(ZX_R, ZXM_SYM)
ZX_GT == BitOr(ZX_T, ZXM_SYM)
ZX_SEMIC == BitOr(ZX_O, ZXM_SYM)
ZX_QUOTE == BitOr(ZX_P, ZXM_SYM)
ZX_MINUS == BitOr(ZX_J, ZXM_SYM)
ZX_PLUS == BitOr(ZX_K, ZXM_SYM)
ZX_EQUAL == BitOr(ZX_L, ZXM_SYM)
ZX_COLON == BitOr(ZX_Z, ZXM_SYM)
ZX_SLASH == BitOr(ZX_V, ZXM_SYM)
ZX_MUL == BitOr(ZX_B, ZXM_SYM)
ZX_COMMA == BitOr(ZX_N, ZXM_SYM)
ZX_DOT == BitOr(ZX_M, ZXM_SYM)
ZX_RESET == ZX(0, 5)
ZX_MAGIC == ZX(0, 6)
ZX_CURJO == ZX(1, 5)

\* a slip in line 136: the force-joystick position in column 7
ZX_SINJO_Column7 == ZX(1, 7)

ZX_SINJO == ZX(1, 6)

NONE == 255
STD_KEYS_OFFSET == USB_SHIFTS_COUNT - KEY_A

usb_to_zx ==
    << 
       ZX_SYM, ZX_CAPS, ZX_EXTMO, ZX_0,
       ZX_CAPS, ZX_SYM, ZX_EXTMO, ZX_0,
       ZX_A, ZX_B, ZX_C, ZX_D,
       ZX_E, ZX_F, ZX_G, ZX_H,
       ZX_I, ZX_J, ZX_K, ZX_L,
       ZX_M, ZX_N, ZX_O, ZX_P,
       ZX_Q, ZX_R, ZX_S, ZX_T,
       ZX_U, ZX_V, ZX_W, ZX_X,
       ZX_Y, ZX_Z, ZX_1, ZX_2,
       ZX_3, ZX_4, ZX_5, ZX_6,
       ZX_7, ZX_8, ZX_9, ZX_0,
       ZX_ENTER, ZX_BREAK, ZX_DEL, ZX_EDIT,
       ZX_SPACE, ZX_MINUS, ZX_EQUAL, ZX_OPEN,
       ZX_CLOSE, ZX_COLON, NONE, ZX_SEMIC,
       ZX_QUOTE, ZX_GRAVE, ZX_COMMA, ZX_DOT,
       ZX_SLASH, ZX_CAPSL, ZX_TRUVI, ZX_INVVI,
       ZX_GRAPH, NONE, ZX_CURJO, ZX_SINJO,
       NONE, NONE, NONE, ZX_MAGIC,
       NONE, ZX_RESET, ZX_PLUS, NONE,
       ZX_PLUS, NONE, NONE, NONE,
       ZX_DEL, NONE, NONE, ZX_RIGHT,
       ZX_LEFT, ZX_DOWN, ZX_UP, NONE,
       ZX_SLASH, ZX_MUL, ZX_MINUS, ZX_PLUS,
       ZX_ENTER, ZX_1, ZX_2, ZX_3,
       ZX_4, ZX_5, ZX_6, ZX_7,
       ZX_8, ZX_9, ZX_0, ZX_DOT,
       0, ZX_0
    >>

usb_to_zx_joystick == << ZX_7, ZX_6, ZX_8, ZX_9 >>

\* ARRAY_SIZE(zx_prepared_a)
PREPARED_SIZE == 256

\* ARRAY_SIZE(info->keys)
KEYS_SIZE == 6

\* the busy-wait length of the magic press
MAGIC_DELAY == 2

----------------------------------------------------------------------------
(* Matrix calculation *)

ZxMatrixGet(zx_matix, zx_key) ==
    U8(BitAnd(zx_matix[ZX_GET_ADDRESS(zx_key)], 2 ^ ZX_GET_DATA(zx_key)))

\* a slip in line 200: the row is assigned, not ORed
ZxMatrixSet_Assign(m, zx_key) ==
    [m EXCEPT ![ZX_GET_ADDRESS(zx_key)] = U8(2 ^ ZX_GET_DATA(zx_key))]

ZxMatrixSet(m, zx_key) ==
    [m EXCEPT ![ZX_GET_ADDRESS(zx_key)] = U8(BitOr(@, 2 ^ ZX_GET_DATA(zx_key)))]

\* The matrix calculation threads the matrix and the text sent to DebugOutput:
\* st.m is zx_matrix, st.out the usb_key values reported as "Unknown key".
\* joy is the value of the global sinclair_joystic the function reads.

\* a slip in lines 216-217: the CAPS key is not added for a key with the CAPS flag
ZxMatrixSetUsb_NoCaps(st, usb_key, joy) ==
    LET j == usb_key - (STD_KEYS_OFFSET + KEY_RIGHTARROW) IN
    IF joy # 0 /\ UnsignedLess(j, Len(usb_to_zx_joystick))
    THEN [st EXCEPT !.m = ZxMatrixSet(@, usb_to_zx_joystick[j + 1])]
    ELSE IF usb_key < Len(usb_to_zx) /\ usb_to_zx[usb_key + 1] # NONE
    THEN LET zx_key == usb_to_zx[usb_key + 1]
             m1 == ZxMatrixSet(st.m, zx_key)
             m3 == IF BitAnd(zx_key, ZXM_SYM) # 0 THEN ZxMatrixSet(m1, ZX_SYM) ELSE m1
         IN  [st EXCEPT !.m = m3]
    ELSE [st EXCEPT !.out = Append(@, usb_key)]

\* a slip in line 209: the return of the joystick branch is missing
ZxMatrixSetUsb_NoReturn(st, usb_key, joy) ==
    LET j == usb_key - (STD_KEYS_OFFSET + KEY_RIGHTARROW)
        s1 == IF joy # 0 /\ UnsignedLess(j, Len(usb_to_zx_joystick))
              THEN [st EXCEPT !.m = ZxMatrixSet(@, usb_to_zx_joystick[j + 1])]
              ELSE st
    IN
    IF usb_key < Len(usb_to_zx) /\ usb_to_zx[usb_key + 1] # NONE
    THEN LET zx_key == usb_to_zx[usb_key + 1]
             m1 == ZxMatrixSet(s1.m, zx_key)
             m2 == IF BitAnd(zx_key, ZXM_CAP) # 0 THEN ZxMatrixSet(m1, ZX_CAPS) ELSE m1
             m3 == IF BitAnd(zx_key, ZXM_SYM) # 0 THEN ZxMatrixSet(m2, ZX_SYM) ELSE m2
         IN  [s1 EXCEPT !.m = m3]
    ELSE [s1 EXCEPT !.out = Append(@, usb_key)]

ZxMatrixSetUsb(st, usb_key, joy) ==
    LET j == usb_key - (STD_KEYS_OFFSET + KEY_RIGHTARROW) IN
    IF joy # 0 /\ UnsignedLess(j, Len(usb_to_zx_joystick))
    THEN [st EXCEPT !.m = ZxMatrixSet(@, usb_to_zx_joystick[j + 1])]
    ELSE IF usb_key < Len(usb_to_zx) /\ usb_to_zx[usb_key + 1] # NONE
    THEN LET zx_key == usb_to_zx[usb_key + 1]
             m1 == ZxMatrixSet(st.m, zx_key)
             m2 == IF BitAnd(zx_key, ZXM_CAP) # 0 THEN ZxMatrixSet(m1, ZX_CAPS) ELSE m1
             m3 == IF BitAnd(zx_key, ZXM_SYM) # 0 THEN ZxMatrixSet(m2, ZX_SYM) ELSE m2
         IN  [st EXCEPT !.m = m3]
    ELSE [st EXCEPT !.out = Append(@, usb_key)]

\* for (i = 0; i < USB_SHIFTS_COUNT; i++) if (info_shifts[i]) ZxMatrixSetUsb(zx_matrix, i);
RECURSIVE ShiftsLoop(_, _, _, _)
ShiftsLoop(st, rep, k, joy) ==
    IF k = USB_SHIFTS_COUNT THEN st
    ELSE ShiftsLoop(IF rep.shifts[k + 1] # 0 THEN ZxMatrixSetUsb(st, U8(k), joy) ELSE st,
                    rep, k + 1, joy)

\* for (i = 0; i < ARRAY_SIZE(info->keys); i++) if (info->keys[i] >= KEY_A) ...
RECURSIVE KeysLoop(_, _, _, _)
KeysLoop(st, rep, k, joy) ==
    IF k = KEYS_SIZE THEN st
    ELSE KeysLoop(IF rep.keys[k + 1] >= KEY_A
                  THEN ZxMatrixSetUsb(st, U8(STD_KEYS_OFFSET + rep.keys[k + 1]), joy)
                  ELSE st,
                  rep, k + 1, joy)

ZeroMatrix == [r \in 0..7 |-> 0]

\* a slip in lines 236-251: the matrix is built again with the updated mode flag
MatrixCalculation_Rebuild(rep, joy) ==
    LET first == KeysLoop(ShiftsLoop([m |-> ZeroMatrix, out |-> << >>], rep, 0, joy),
                          rep, 0, joy)
        mode  == IF ZxMatrixGet(first.m, ZX_CURJO) # 0 THEN 0
                 ELSE IF ZxMatrixGet(first.m, ZX_SINJO) # 0 THEN 1
                 ELSE joy
    IN  KeysLoop(ShiftsLoop([m |-> ZeroMatrix, out |-> << >>], rep, 0, mode), rep, 0, mode)

\* uint8_t zx_matrix[8] = {0}; followed by the two loops
MatrixCalculation(rep, joy) ==
    KeysLoop(ShiftsLoop([m |-> ZeroMatrix, out |-> << >>], rep, 0, joy), rep, 0, joy)

\* a slip in lines 248-251: the flag follows the force-joystick key
Modes_Momentary(m, joy) ==
    IF ZxMatrixGet(m, ZX_CURJO) # 0 THEN 0
    ELSE IF ZxMatrixGet(m, ZX_SINJO) # 0 THEN 1
    ELSE 0

\* the value of sinclair_joystic after the "Modes" statement, joy its value before
Modes(m, joy) ==
    IF ZxMatrixGet(m, ZX_CURJO) # 0 THEN 0
    ELSE IF ZxMatrixGet(m, ZX_SINJO) # 0 THEN 1
    ELSE joy

----------------------------------------------------------------------------
(* Precompute *)

\* the inner loop over j: p |= zx_matrix[j] for every j whose bit of z is 0
RECURSIVE RowsLoop(_, _, _, _)
RowsLoop(m, z, j, p) ==
    IF j = BITS_PER_BYTE THEN p
    ELSE RowsLoop(m, z \div 2, j + 1, IF BitAnd(z, 1) = 0 THEN BitOr(p, m[j]) ELSE p)

\* a slip in line 259: the rows whose bit is set are accumulated
RECURSIVE RowsLoop_SetBits(_, _, _, _)
RowsLoop_SetBits(m, z, j, p) ==
    IF j = BITS_PER_BYTE THEN p
    ELSE RowsLoop_SetBits(m, z \div 2, j + 1,
                          IF BitAnd(z, 1) # 0 THEN BitOr(p, m[j]) ELSE p)

Response_SetBits(m, idx) == NotU8(RowsLoop_SetBits(m, idx, 0, 0))

\* the byte stored by *o++ = ~p for table index idx
Response(m, idx) == NotU8(RowsLoop(m, idx, 0, 0))

\* a slip in line 254: the loop writes into the published buffer
WriteTarget_Published == IF zx_prepared # "a" THEN "b" ELSE "a"

\* uint8_t *a = zx_prepared != zx_prepared_a ? zx_prepared_a : zx_prepared_b;
WriteTarget == IF zx_prepared # "a" THEN "a" ELSE "b"

Buffer(p) == IF p = "a" THEN zx_prepared_a ELSE zx_prepared_b

\* a slip in line 268: the led follows the entry of row 0 alone
LedLevel_OneRow(tab) == IF tab[254] # 255 THEN 0 ELSE 1

\* line 268, the level written to the led pin from the table just written
LedLevel(tab) == IF tab[0] # 255 THEN 0 ELSE 1

\* a slip in line 271: the reset pin follows the magic key
ResetLevel_Magic(m) == IF ZxMatrixGet(m, ZX_MAGIC) # 0 THEN 0 ELSE 1

\* line 271, the level written to the reset pin
ResetLevel(m) == IF ZxMatrixGet(m, ZX_RESET) # 0 THEN 0 ELSE 1

\* line 274, the condition of the magic sequence
MagicPressed(m) == ZxMatrixGet(m, ZX_MAGIC) # 0

\* a slip in line 256: the loop runs over the whole table
LoopEnd_WholeTable == PREPARED_SIZE

\* the number of entries the precompute loop writes
LoopEnd == PREPARED_SIZE - 1

----------------------------------------------------------------------------
(* The initial state: the static initialisers of my.c and the pin levels   *)
(* after reset (outputs released, interrupts enabled, nothing pending).    *)
(* kbd is the attached keyboard; joy is sinclair_joystic, 0 at start-up.   *)

\* HID_KEYBD_Info_TypeDef, the fields MyIdle reads: shifts are the eight modifier
\* bytes lctrl..rgui that precede keys, keys the six key slots
NoShifts == <<0, 0, 0, 0, 0, 0, 0, 0>>

\* a report with the given usage codes in the first key slots and no modifier held
Keys(ks) == [shifts |-> NoShifts,
             keys   |-> [k \in 1..KEYS_SIZE |-> IF k <= Len(ks) THEN ks[k] ELSE 0]]

InitTable == [k \in 0..(PREPARED_SIZE - 1) |-> 255]

InitWith(kbd, joy) ==
    /\ pc = "idle"
    /\ info = Keys(<< >>)
    /\ ret = "none"
    /\ zx_matrix = ZeroMatrix
    /\ sinclair_joystic = joy
    /\ zx_prepared = "a"
    /\ zx_prepared_a = InitTable
    /\ zx_prepared_b = InitTable
    /\ a = "a"
    /\ i = 0
    /\ delay = 0
    /\ primask = 0
    /\ exti_pr = FALSE
    /\ GPIOB_IDR = 255
    /\ GPIOA_ODR = 255
    /\ GPIOA_6 = 0
    /\ GPIOC_13 = 1
    /\ GPIOB_8 = 1
    /\ GPIOB_9 = 1
    /\ uart = << >>
    /\ wr = << >>
    /\ keyboard = kbd
    /\ published_matrix = ZeroMatrix

----------------------------------------------------------------------------
(* MyIdle, one action per step the interrupt handler can fall between *)

\* a slip in lines 228-234: the skipped invocation still swaps the buffers
MyIdleSkip_Swaps(active, got) ==
    /\ pc = "idle"
    /\ ~active \/ ~got
    /\ ret' = "skipped"
    /\ wr' = << >>
    /\ zx_prepared' = IF zx_prepared # "a" THEN "a" ELSE "b"
    /\ UNCHANGED <<pc, info, zx_matrix, sinclair_joystic, zx_prepared_a,
                   zx_prepared_b, a, i, delay, primask, exti_pr, GPIOB_IDR,
                   GPIOA_ODR, GPIOA_6, GPIOC_13, GPIOB_8, GPIOB_9, uart, keyboard, published_matrix>>

\* lines 228-234: no keyboard attached (~active), or USBH_HID_GetKeybdInfo
\* returned NULL (~got)
MyIdleSkip(active, got) ==
    /\ pc = "idle"
    /\ ~active \/ ~got
    /\ ret' = "skipped"
    /\ wr' = << >>
    /\ UNCHANGED <<pc, info, zx_matrix, sinclair_joystic, zx_prepared, zx_prepared_a,
                   zx_prepared_b, a, i, delay, primask, exti_pr, GPIOB_IDR,
                   GPIOA_ODR, GPIOA_6, GPIOC_13, GPIOB_8, GPIOB_9, uart, keyboard, published_matrix>>

\* lines 236-255: matrix calculation, modes, choice of the buffer to write
MyIdleMatrix(rep) ==
    /\ pc = "idle"
    /\ info' = rep
    /\ LET st == MatrixCalculation(rep, sinclair_joystic) IN
        /\ zx_matrix' = st.m
        /\ uart' = st.out
        /\ sinclair_joystic' = Modes(st.m, sinclair_joystic)
    /\ a' = WriteTarget
    /\ i' = 0
    /\ pc' = "precompute"
    /\ ret' = "running"
    /\ wr' = << >>
    /\ UNCHANGED <<zx_prepared, zx_prepared_a, zx_prepared_b, delay, primask,
                   exti_pr, GPIOB_IDR, GPIOA_ODR, GPIOA_6, GPIOC_13, GPIOB_8,
                   GPIOB_9, keyboard, published_matrix>>

\* lines 256-264: one iteration of the precompute loop
MyIdlePrecompute ==
    /\ pc = "precompute"
    /\ i < LoopEnd
    /\ IF a = "a"
       THEN /\ zx_prepared_a' = [zx_prepared_a EXCEPT ![i] = Response(zx_matrix, i)]
            /\ UNCHANGED zx_prepared_b
       ELSE /\ zx_prepared_b' = [zx_prepared_b EXCEPT ![i] = Response(zx_matrix, i)]
            /\ UNCHANGED zx_prepared_a
    /\ i' = i + 1
    /\ UNCHANGED <<pc, info, ret, zx_matrix, sinclair_joystic, zx_prepared, a, delay,
                   primask, exti_pr, GPIOB_IDR, GPIOA_ODR, GPIOA_6, GPIOC_13,
                   GPIOB_8, GPIOB_9, uart, wr, keyboard, published_matrix>>

\* a slip in line 265: the handle is updated one entry before the end of the loop
MyIdlePublish_Early ==
    /\ pc = "precompute"
    /\ i = LoopEnd - 1
    /\ zx_prepared' = a
    /\ published_matrix' = zx_matrix
    /\ wr' = Append(wr, "publish")
    /\ pc' = "led"
    /\ UNCHANGED <<info, ret, zx_matrix, sinclair_joystic, zx_prepared_a, zx_prepared_b,
                   a, i, delay, primask, exti_pr, GPIOB_IDR, GPIOA_ODR, GPIOA_6,
                   GPIOC_13, GPIOB_8, GPIOB_9, uart, keyboard>>

\* line 265: zx_prepared = a;
MyIdlePublish ==
    /\ pc = "precompute"
    /\ i = LoopEnd
    /\ zx_prepared' = a
    /\ published_matrix' = zx_matrix
    /\ wr' = Append(wr, "publish")
    /\ pc' = "led"
    /\ UNCHANGED <<info, ret, zx_matrix, sinclair_joystic, zx_prepared_a, zx_prepared_b,
                   a, i, delay, primask, exti_pr, GPIOB_IDR, GPIOA_ODR, GPIOA_6,
                   GPIOC_13, GPIOB_8, GPIOB_9, uart, keyboard>>

\* line 268: onboard led
MyIdleLed ==
    /\ pc = "led"
    /\ GPIOC_13' = LedLevel(Buffer(a))
    /\ wr' = Append(wr, "led")
    /\ pc' = "reset"
    /\ UNCHANGED <<info, ret, zx_matrix, sinclair_joystic, zx_prepared, zx_prepared_a,
                   zx_prepared_b, a, i, delay, primask, exti_pr, GPIOB_IDR,
                   GPIOA_ODR, GPIOA_6, GPIOB_8, GPIOB_9, uart, keyboard, published_matrix>>

\* line 271: reset key
MyIdleReset ==
    /\ pc = "reset"
    /\ GPIOB_8' = ResetLevel(zx_matrix)
    /\ wr' = Append(wr, "reset")
    /\ pc' = "magic"
    /\ UNCHANGED <<info, ret, zx_matrix, sinclair_joystic, zx_prepared, zx_prepared_a,
                   zx_prepared_b, a, i, delay, primask, exti_pr, GPIOB_IDR,
                   GPIOA_ODR, GPIOA_6, GPIOC_13, GPIOB_9, uart, keyboard, published_matrix>>

\* line 274 false: the magic key is not pressed, MyIdle returns
MyIdleReturn ==
    /\ pc = "magic"
    /\ ~MagicPressed(zx_matrix)
    /\ pc' = "idle"
    /\ ret' = "done"
    /\ UNCHANGED <<info, zx_matrix, sinclair_joystic, zx_prepared, zx_prepared_a,
                   zx_prepared_b, a, i, delay, primask, exti_pr, GPIOB_IDR,
                   GPIOA_ODR, GPIOA_6, GPIOC_13, GPIOB_8, GPIOB_9, uart, wr, keyboard, published_matrix>>

\* a slip in line 276: interrupts are left enabled
MagicDisableIrq_Missing ==
    /\ pc = "magic"
    /\ MagicPressed(zx_matrix)
    /\ primask' = 0
    /\ wr' = Append(wr, "disable_irq")
    /\ pc' = "wait_high"
    /\ UNCHANGED <<info, ret, zx_matrix, sinclair_joystic, zx_prepared, zx_prepared_a,
                   zx_prepared_b, a, i, delay, exti_pr, GPIOB_IDR, GPIOA_ODR,
                   GPIOA_6, GPIOC_13, GPIOB_8, GPIOB_9, uart, keyboard, published_matrix>>

\* lines 274-276: __disable_irq();
MagicDisableIrq ==
    /\ pc = "magic"
    /\ MagicPressed(zx_matrix)
    /\ primask' = 1
    /\ wr' = Append(wr, "disable_irq")
    /\ pc' = "wait_high"
    /\ UNCHANGED <<info, ret, zx_matrix, sinclair_joystic, zx_prepared, zx_prepared_a,
                   zx_prepared_b, a, i, delay, exti_pr, GPIOB_IDR, GPIOA_ODR,
                   GPIOA_6, GPIOC_13, GPIOB_8, GPIOB_9, uart, keyboard, published_matrix>>

\* a slip in line 278: the wait gives up although M1 is low
MagicWaitHigh_GivesUp ==
    /\ pc = "wait_high"
    /\ wr' = Append(wr, "m1_high")
    /\ pc' = "wait_low"
    /\ UNCHANGED <<info, ret, zx_matrix, sinclair_joystic, zx_prepared, zx_prepared_a,
                   zx_prepared_b, a, i, delay, primask, exti_pr, GPIOB_IDR,
                   GPIOA_ODR, GPIOA_6, GPIOC_13, GPIOB_8, GPIOB_9, uart, keyboard, published_matrix>>

\* line 278: while ((GPIOA->IDR & GPIO_PIN_6) == 0); the loop is left when M1 is sampled high
MagicWaitHigh ==
    /\ pc = "wait_high"
    /\ GPIOA_6 # 0
    /\ wr' = Append(wr, "m1_high")
    /\ pc' = "wait_low"
    /\ UNCHANGED <<info, ret, zx_matrix, sinclair_joystic, zx_prepared, zx_prepared_a,
                   zx_prepared_b, a, i, delay, primask, exti_pr, GPIOB_IDR,
                   GPIOA_ODR, GPIOA_6, GPIOC_13, GPIOB_8, GPIOB_9, uart, keyboard, published_matrix>>

\* line 279: while ((GPIOA->IDR & GPIO_PIN_6) != 0); the loop is left when M1 is sampled low
MagicWaitLow ==
    /\ pc = "wait_low"
    /\ GPIOA_6 = 0
    /\ wr' = Append(wr, "m1_low")
    /\ pc' = "press"
    /\ UNCHANGED <<info, ret, zx_matrix, sinclair_joystic, zx_prepared, zx_prepared_a,
                   zx_prepared_b, a, i, delay, primask, exti_pr, GPIOB_IDR,
                   GPIOA_ODR, GPIOA_6, GPIOC_13, GPIOB_8, GPIOB_9, uart, keyboard, published_matrix>>

\* lines 281-283: press MAGIC, delay = 0
MagicPress ==
    /\ pc = "press"
    /\ GPIOB_9' = 0
    /\ delay' = 0
    /\ wr' = Append(wr, "press")
    /\ pc' = "delay"
    /\ UNCHANGED <<info, ret, zx_matrix, sinclair_joystic, zx_prepared, zx_prepared_a,
                   zx_prepared_b, a, i, primask, exti_pr, GPIOB_IDR, GPIOA_ODR,
                   GPIOA_6, GPIOC_13, GPIOB_8, uart, keyboard, published_matrix>>

\* lines 284-285: while (delay < 2) delay++;
MagicDelay ==
    /\ pc = "delay"
    /\ delay < MAGIC_DELAY
    /\ delay' = delay + 1
    /\ UNCHANGED <<pc, info, ret, zx_matrix, sinclair_joystic, zx_prepared, zx_prepared_a,
                   zx_prepared_b, a, i, primask, exti_pr, GPIOB_IDR, GPIOA_ODR,
                   GPIOA_6, GPIOC_13, GPIOB_8, GPIOB_9, uart, wr, keyboard, published_matrix>>

\* line 287: release MAGIC
MagicRelease ==
    /\ pc = "delay"
    /\ ~(delay < MAGIC_DELAY)
    /\ GPIOB_9' = 1
    /\ wr' = Append(wr, "release")
    /\ pc' = "enable"
    /\ UNCHANGED <<info, ret, zx_matrix, sinclair_joystic, zx_prepared, zx_prepared_a,
                   zx_prepared_b, a, i, delay, primask, exti_pr, GPIOB_IDR,
                   GPIOA_ODR, GPIOA_6, GPIOC_13, GPIOB_8, uart, keyboard, published_matrix>>

\* line 289: __enable_irq(); MyIdle returns
MagicEnableIrq ==
    /\ pc = "enable"
    /\ primask' = 0
    /\ wr' = Append(wr, "enable_irq")
    /\ pc' = "idle"
    /\ ret' = "done"
    /\ UNCHANGED <<info, zx_matrix, sinclair_joystic, zx_prepared, zx_prepared_a,
                   zx_prepared_b, a, i, delay, exti_pr, GPIOB_IDR, GPIOA_ODR,
                   GPIOA_6, GPIOC_13, GPIOB_8, GPIOB_9, uart, keyboard, published_matrix>>

----------------------------------------------------------------------------
(* The interrupt handler and the environment *)

\* a slip in line 294: the handler indexes zx_prepared_a instead of zx_prepared
EXTI9_5_IRQHandler_FixedBuffer ==
    /\ exti_pr
    /\ primask = 0
    /\ GPIOA_ODR' = zx_prepared_a[BitAnd(GPIOB_IDR, 255)]
    /\ exti_pr' = FALSE
    /\ UNCHANGED <<pc, info, ret, zx_matrix, sinclair_joystic, zx_prepared, zx_prepared_a,
                   zx_prepared_b, a, i, delay, primask, GPIOB_IDR, GPIOA_6,
                   GPIOC_13, GPIOB_8, GPIOB_9, uart, wr, keyboard, published_matrix>>

\* a slip in line 294: the index is the complement of the address
EXTI9_5_IRQHandler_Complement ==
    /\ exti_pr
    /\ primask = 0
    /\ GPIOA_ODR' = Buffer(zx_prepared)[NotU8(GPIOB_IDR)]
    /\ exti_pr' = FALSE
    /\ UNCHANGED <<pc, info, ret, zx_matrix, sinclair_joystic, zx_prepared, zx_prepared_a,
                   zx_prepared_b, a, i, delay, primask, GPIOB_IDR, GPIOA_6,
                   GPIOC_13, GPIOB_8, GPIOB_9, uart, wr, keyboard, published_matrix>>

\* lines 293-296; it runs to completion, and only while interrupts are enabled
EXTI9_5_IRQHandler ==
    /\ exti_pr
    /\ primask = 0
    /\ GPIOA_ODR' = Buffer(zx_prepared)[BitAnd(GPIOB_IDR, 255)]
    /\ exti_pr' = FALSE
    /\ UNCHANGED <<pc, info, ret, zx_matrix, sinclair_joystic, zx_prepared, zx_prepared_a,
                   zx_prepared_b, a, i, delay, primask, GPIOB_IDR, GPIOA_6,
                   GPIOC_13, GPIOB_8, GPIOB_9, uart, wr, keyboard, published_matrix>>

\* the host puts a new value on the address bus; the edge raises the interrupt
BusEdge(s) ==
    /\ GPIOB_IDR' = s
    /\ exti_pr' = TRUE
    /\ UNCHANGED <<pc, info, ret, zx_matrix, sinclair_joystic, zx_prepared, zx_prepared_a,
                   zx_prepared_b, a, i, delay, primask, GPIOA_ODR, GPIOA_6,
                   GPIOC_13, GPIOB_8, GPIOB_9, uart, wr, keyboard, published_matrix>>

\* the host toggles the M1 strobe. MyIdle samples the strobe only inside its
\* two wait loops, so only the toggles that happen there are modelled.
StrobeToggle ==
    /\ pc \in {"wait_high", "wait_low"}
    /\ GPIOA_6' = 1 - GPIOA_6
    /\ UNCHANGED <<pc, info, ret, zx_matrix, sinclair_joystic, zx_prepared, zx_prepared_a,
                   zx_prepared_b, a, i, delay, primask, exti_pr, GPIOB_IDR,
                   GPIOA_ODR, GPIOC_13, GPIOB_8, GPIOB_9, uart, wr, keyboard, published_matrix>>

----------------------------------------------------------------------------
(* MyIdle as one action: a whole invocation that is not skipped, run without *)
(* an interrupt in between and with the strobe going high, then low.        *)

\* a slip in line 263: an entry is stored only when a selected row has a key
Precompute_PressedOnly(tab, m) ==
    [k \in 0..(PREPARED_SIZE - 1) |->
        IF k < LoopEnd /\ Response(m, k) # 255 THEN Response(m, k) ELSE tab[k]]

\* lines 256-264 as a whole: entries 0..254 rewritten, entry 255 kept
Precompute(tab, m) ==
    [k \in 0..(PREPARED_SIZE - 1) |-> IF k < LoopEnd THEN Response(m, k) ELSE tab[k]]

MagicLog == <<"disable_irq", "m1_high", "m1_low", "press", "release", "enable_irq">>

MyIdle(rep) ==
    /\ pc = "idle"
    /\ info' = rep
    /\ \E st \in {MatrixCalculation(rep, sinclair_joystic)}, t \in {WriteTarget} :
       \E tab \in {Precompute(Buffer(t), st.m)} :
           /\ zx_matrix' = st.m
           /\ uart' = st.out
           /\ sinclair_joystic' = Modes(st.m, sinclair_joystic)
           /\ a' = t
           /\ i' = LoopEnd
           /\ IF t = "a"
              THEN zx_prepared_a' = tab /\ UNCHANGED zx_prepared_b
              ELSE zx_prepared_b' = tab /\ UNCHANGED zx_prepared_a
           /\ zx_prepared' = t
           /\ published_matrix' = st.m
           /\ GPIOC_13' = LedLevel(tab)
           /\ GPIOB_8' = ResetLevel(st.m)
           /\ IF MagicPressed(st.m)
              THEN /\ wr' = <<"publish", "led", "reset">> \o MagicLog
                   /\ delay' = MAGIC_DELAY
                   /\ GPIOA_6' = 0
              ELSE /\ wr' = <<"publish", "led", "reset">>
                   /\ UNCHANGED <<delay, GPIOA_6>>
    /\ ret' = "done"
    /\ UNCHANGED <<pc, primask, exti_pr, GPIOB_IDR, GPIOA_ODR, GPIOB_9, keyboard>>

----------------------------------------------------------------------------
(* Inputs *)

\* usage codes of the HID keyboard page
USB_A == 4
USB_B == 5
USB_S == 22
USB_7 == 36
USB_ESCAPE == 41
USB_MINUS == 45
USB_F5 == 62
USB_F6 == 63
USB_F7 == 64
USB_F10 == 67
USB_F12 == 69
USB_RIGHTARROW == 79
USB_LEFTARROW == 80
USB_DOWNARROW == 81
USB_UPARROW == 82
USB_NONUS_BACKSLASH == 100

\* a report with the given usage codes and left shift held
ShiftKeys(ks) == [Keys(ks) EXCEPT !.shifts[2] = 1]

\* the keyboards of the step-by-step specification
KeyboardList == <<"k1", "k2", "k3">>

NumKeyboards == 2

Keyboards == {KeyboardList[k] : k \in 1..NumKeyboards}

\* the reports of the whole-cycle specification
ReportList ==
    << Keys(<< >>),
       Keys(<<USB_A>>),
       Keys(<<USB_F6>>),
       Keys(<<USB_F5>>),
       Keys(<<USB_F5, USB_F6>>),
       Keys(<<USB_RIGHTARROW>>),
       Keys(<<USB_F10>>),
       Keys(<<USB_F12, USB_B>>),
       ShiftKeys(<<USB_A>>),
       Keys(<<USB_ESCAPE>>) >>

NumReports == 8

Reports == {ReportList[k] : k \in 1..NumReports}

\* the reports of the matrix-calculation specification: every usage code
\* alone, and every usage code together with the letter A in either order
BuildReports ==
    {Keys(<<v>>) : v \in Byte} \cup {Keys(<<v, USB_A>>) : v \in Byte}
        \cup {Keys(<<USB_A, v>>) : v \in Byte}

\* a report with the given usage codes and modifier k (1 = left ctrl .. 8 = right gui) held
ModKeys(k, ks) == [Keys(ks) EXCEPT !.shifts[k] = 1]

\* reports with modifiers: each modifier alone, with a letter and with a
\* direction, and all eight modifiers together
ModifierReports ==
    {ModKeys(k, <<v>>) : k \in 1..USB_SHIFTS_COUNT, v \in {0, USB_A, USB_RIGHTARROW}}
        \cup {[Keys(<< >>) EXCEPT !.shifts = [k \in 1..USB_SHIFTS_COUNT |-> 1]]}

\* the reports of the order specification: the first three key slots filled,
\* in ascending order of the codes and with repetition, from two letters of
\* one matrix row, the digit 7, a key with the SYMBOL flag and a direction;
\* those that start with the letter A also with the left shift held
OrderCodes == {USB_A, USB_S, USB_7, USB_MINUS, USB_RIGHTARROW}

OrderTriples == {t \in OrderCodes \X OrderCodes \X OrderCodes : t[1] <= t[2] /\ t[2] <= t[3]}

OrderReports ==
    {Keys(<<t[1], t[2], t[3]>>) : t \in OrderTriples}
        \cup {ModKeys(2, <<t[1], t[2], t[3]>>) : t \in {u \in OrderTriples : u[1] = USB_A}}

\* the reports that change the mode
ModeReports == {Keys(<<USB_F5>>), Keys(<<USB_F6>>)}

\* the reports of the key-by-key whole-cycle specification: nothing pressed,
\* a letter, a usage code whose entry is NONE, the usage code whose entry is
\* the literal 0, a direction alone and with either mode key, a modifier alone
KeyReports ==
    { Keys(<< >>),
      Keys(<<USB_A>>),
      Keys(<<USB_F7>>),
      Keys(<<USB_NONUS_BACKSLASH>>),
      Keys(<<USB_RIGHTARROW>>),
      Keys(<<USB_F6, USB_RIGHTARROW>>),
      Keys(<<USB_F5, USB_RIGHTARROW>>),
      ShiftKeys(<< >>) }

\* the reports each keyboard can deliver
ReportsOf(kbd) ==
    CASE kbd = "k1"      -> {Keys(<< >>), Keys(<<USB_A>>)}
      [] kbd = "k2"      -> {Keys(<<USB_F10, USB_A, USB_B>>), Keys(<<USB_F12>>)}
      [] kbd = "k3"      -> {Keys(<<USB_F6>>), Keys(<<USB_RIGHTARROW>>)}
      [] kbd = "magic"   -> {Keys(<<USB_F10>>), Keys(<< >>)}
      [] kbd = "reports" -> Reports
      [] kbd = "build"   -> BuildReports \cup ModifierReports
      [] kbd = "keys"    -> KeyReports
      [] kbd = "order"   -> OrderReports

\* the values the host puts on the address bus
AddrList == <<253, 254, 0, 255, 127>>

NumAddr == 2

AddrSamples == {AddrList[k] : k \in 1..NumAddr}

----------------------------------------------------------------------------
(* Specifications *)

\* MyIdle step by step, the interrupt handler between any two steps
Next ==
    \/ \E active \in BOOLEAN, got \in BOOLEAN : MyIdleSkip(active, got)
    \/ \E rep \in ReportsOf(keyboard) : MyIdleMatrix(rep)
    \/ MyIdlePrecompute
    \/ MyIdlePublish
    \/ MyIdleLed
    \/ MyIdleReset
    \/ MyIdleReturn
    \/ MagicDisableIrq
    \/ MagicWaitHigh
    \/ MagicWaitLow
    \/ MagicPress
    \/ MagicDelay
    \/ MagicRelease
    \/ MagicEnableIrq
    \/ StrobeToggle
    \/ EXTI9_5_IRQHandler
    \/ \E s \in AddrSamples : BusEdge(s)

Init == \E kbd \in Keyboards : InitWith(kbd, 0)

Spec == Init /\ [][Next]_vars

\* MyIdle step by step and the handler, the host also selecting all rows
\* (address 0x00) and no row (address 0xFF), with the keyboard k2
SelectAllOrNone == {0, 255}

NextBus ==
    \/ Next
    \/ \E s \in SelectAllOrNone : BusEdge(s)

InitBus == InitWith("k2", 0)

SpecBus == InitBus /\ [][NextBus]_vars

\* whole invocations of MyIdle
NextCycle ==
    \/ \E active \in BOOLEAN, got \in BOOLEAN : MyIdleSkip(active, got)
    \/ \E rep \in ReportsOf(keyboard) : MyIdle(rep)

InitCycle == InitWith("reports", 0)

SpecCycle == InitCycle /\ [][NextCycle]_vars

\* whole invocations of MyIdle on the reports of KeyReports
InitKeys == InitWith("keys", 0)

SpecKeys == InitKeys /\ [][NextCycle]_vars

\* the matrix calculation and the mode update (lines 236-251) applied to
\* every report of BuildReports, in either mode: whole cycles of the mode
\* keys bring the mode flag to either value
NextBuild ==
    \/ \E rep \in ReportsOf(keyboard) : MyIdleMatrix(rep)
    \/ \E rep \in ModeReports : MyIdle(rep)

InitBuild == InitWith("build", 0)

SpecBuild == InitBuild /\ [][NextBuild]_vars

\* the matrix calculation and the mode update applied to the reports of
\* OrderReports, in either mode: whole cycles of the force-joystick key set
\* the mode flag
NextOrder ==
    \/ \E rep \in ReportsOf(keyboard) : MyIdleMatrix(rep)
    \/ MyIdle(Keys(<<USB_F6>>))

InitOrder == InitWith("order", 0)

SpecOrder == InitOrder /\ [][NextOrder]_vars

\* the processor keeps executing MyIdle once it has entered it; the host
\* keeps toggling M1, and MyIdle eventually samples it high and then low
PollStep ==
    \/ MyIdlePrecompute
    \/ MyIdlePublish
    \/ MyIdleLed
    \/ MyIdleReset
    \/ MyIdleReturn
    \/ MagicDisableIrq
    \/ MagicPress
    \/ MagicDelay
    \/ MagicRelease
    \/ MagicEnableIrq

InitLive == InitWith("magic", 0)

SpecLive ==
    /\ InitLive
    /\ [][Next]_vars
    /\ WF_vars(PollStep)
    /\ WF_vars(StrobeToggle)
    /\ SF_vars(MagicWaitHigh)
    /\ SF_vars(MagicWaitLow)

----------------------------------------------------------------------------
(* Claims *)

\* the complete tables of a keyboard: the initial table, and the table the
\* precompute loop produces, run to its end, from the matrix of each report
\* of the keyboard in either mode
CompleteTablesOf ==
    [kbd \in Keyboards |->
        {InitTable} \cup {Precompute(InitTable, MatrixCalculation(rep, joy).m) :
                            rep \in ReportsOf(kbd), joy \in {0, 1}}]

CompleteTables == CompleteTablesOf[keyboard]

\* C1 (double-buffer safety): at every point of the poll loop the buffer the
\* published handle designates is not the buffer the loop is writing, and the
\* published buffer holds a completely written table, never a partly
\* rewritten one, so every byte the bus response handler can read comes from
\* a complete table.
C1_DoubleBufferSafety ==
    /\ pc = "precompute" => a # zx_prepared
    /\ Buffer(zx_prepared) \in CompleteTables

\* C1 witness: the handler has answered from the published table while the
\* poll loop is in the middle of rewriting the other buffer, which is torn and
\* would have given a different byte
C1_Witness ==
    /\ pc = "precompute"
    /\ 0 < i /\ i < LoopEnd
    /\ Buffer(a) \notin CompleteTables
    /\ ~exti_pr
    /\ GPIOA_ODR = Buffer(zx_prepared)[GPIOB_IDR]
    /\ GPIOA_ODR # Buffer(a)[GPIOB_IDR]

\* the number of times event e occurs in the log w
Count(w, e) == Cardinality({k \in 1..Len(w) : w[k] = e})

\* C2 (publish protocol): the poll loop writes table entries only into the
\* buffer that is not published; the handle changes only in the step after the
\* last entry has been written, once per cycle, to the buffer just written,
\* which is the other buffer than the one published before; a cycle that
\* starts takes the buffer that is not published as its write target; the
\* handle always designates one of the two buffers.
C2_PublishProtocol ==
    [][ /\ zx_prepared_a' # zx_prepared_a =>
              pc = "precompute" /\ a = "a" /\ zx_prepared # "a"
        /\ zx_prepared_b' # zx_prepared_b =>
              pc = "precompute" /\ a = "b" /\ zx_prepared # "b"
        /\ zx_prepared' # zx_prepared =>
              /\ pc = "precompute" /\ i = LoopEnd
              /\ zx_prepared' = a
              /\ Count(wr, "publish") = 0
        /\ pc = "precompute" /\ pc' # "precompute" =>
              /\ i = LoopEnd
              /\ zx_prepared' = a /\ zx_prepared' # zx_prepared
        /\ pc = "idle" /\ pc' # "idle" => a' # zx_prepared /\ a' \in {"a", "b"}
        /\ pc # "idle" /\ pc' = "idle" =>
              Count(wr', "publish") = 1 /\ zx_prepared' = a
        /\ zx_prepared' \in {"a", "b"}
      ]_vars

\* C2 witness: the second cycle has just published, the handle is back on the
\* buffer that was published at start-up
C2_Witness ==
    /\ pc = "led"
    /\ wr = <<"publish">>
    /\ zx_prepared = "a"
    /\ zx_prepared_b # InitTable

\* bit c of byte x
HasBit(x, c) == (x \div (2 ^ c)) % 2 = 1

\* the byte whose bit c is set exactly when bit c is set in some row of S
RECURSIVE OrOfRowsFrom(_, _, _)
OrOfRowsFrom(m, S, c) ==
    IF c = 8 THEN 0
    ELSE (IF \E r \in S : HasBit(m[r], c) THEN 2 ^ c ELSE 0) + OrOfRowsFrom(m, S, c + 1)

OrOfRows(m, S) == OrOfRowsFrom(m, S, 0)

RowsSetIn(k) == {r \in 0..7 : HasBit(k, r)}

RowsClearIn(k) == {r \in 0..7 : ~HasBit(k, r)}

\* the matrix with the single bit (r, c)
SingleKey(r, c) == [q \in 0..7 |-> IF q = r THEN 2 ^ c ELSE 0]

\* a cycle that was not skipped has published its table
Published == pc = "led" \/ (pc = "idle" /\ ret = "done")

\* C3 as claimed: every entry k < 255 of the published table is the complement
\* of the OR of the rows whose bit is set in k, entry 0 is 0xFF, and a single
\* key (r, c) shows at index 2^r.
C3_AsClaimed ==
    Published =>
        /\ \A k \in 0..254 :
              Buffer(zx_prepared)[k] = 255 - OrOfRows(zx_matrix, RowsSetIn(k))
        /\ Buffer(zx_prepared)[0] = 255
        /\ \A r \in 0..7, c \in 0..4 :
              zx_matrix = SingleKey(r, c) => Buffer(zx_prepared)[2 ^ r] = 255 - (2 ^ c)

\* C3 (precompute correctness, amended): after a cycle that was not skipped,
\* every entry k < 255 of the published table is the 8-bit complement of the
\* OR of the rows whose bit is clear in k; entry 0 is the complement of the OR
\* of all eight rows; a single key (r, c) pressed alone shows at index
\* 255 - 2^r as 0xFF with bit c cleared, and entry 2^r is 0xFF.
C3_PrecomputeActiveLow ==
    Published =>
        /\ \A k \in 0..254 :
              Buffer(zx_prepared)[k] = 255 - OrOfRows(zx_matrix, RowsClearIn(k))
        /\ Buffer(zx_prepared)[0] = 255 - OrOfRows(zx_matrix, 0..7)
        /\ \A r \in 0..7, c \in 0..4 :
              zx_matrix = SingleKey(r, c) =>
                  /\ Buffer(zx_prepared)[255 - (2 ^ r)] = 255 - (2 ^ c)
                  /\ Buffer(zx_prepared)[2 ^ r] = 255

\* C3 witness: the letter A alone, row 1 column 0, has been published
C3_Witness ==
    /\ pc = "idle" /\ ret = "done"
    /\ info = Keys(<<USB_A>>)
    /\ zx_matrix = SingleKey(1, 0)
    /\ Buffer(zx_prepared)[253] = 254
    /\ Buffer(zx_prepared)[2] = 255
    /\ Buffer(zx_prepared)[0] = 254

\* the step of the bus response handler: it alone clears the pending bit
HandlerStep == exti_pr /\ ~exti_pr'

\* C4 (single writer): a firing of the bus response handler leaves the handle,
\* both tables, the mode flag and the reset, button and led outputs alone,
\* writes the data bus once, with the byte of the published table at the
\* sampled address, and clears the trigger; the data bus changes in no other
\* step, and the handle and the tables change only in steps of the poll loop.
C4_SingleWriter ==
    [][ /\ HandlerStep =>
              /\ GPIOA_ODR' = Buffer(zx_prepared)[GPIOB_IDR % 256]
              /\ UNCHANGED <<zx_prepared, zx_prepared_a, zx_prepared_b,
                             sinclair_joystic, GPIOB_8, GPIOB_9, GPIOC_13,
                             pc, a, i, zx_matrix>>
        /\ GPIOA_ODR' # GPIOA_ODR => HandlerStep /\ primask = 0
        /\ <<zx_prepared, zx_prepared_a, zx_prepared_b>>' #
               <<zx_prepared, zx_prepared_a, zx_prepared_b>> =>
              /\ pc = "precompute"
              /\ pc' # pc \/ i' # i
              /\ UNCHANGED <<exti_pr, GPIOA_ODR>>
      ]_vars

\* C4 witness: the handler has answered an address that selects row 1 with the
\* byte of the letter A
C4_Witness ==
    /\ ~exti_pr
    /\ GPIOB_IDR = 253
    /\ GPIOA_ODR = 254

\* C5 (no device present): an invocation of the poll loop that is skipped
\* changes neither the handle, nor a table, nor the mode flag, nor the reset,
\* led and button outputs, leaves interrupts enabled and returns at once; the
\* handler goes on answering from the published table after it.
C5_NoDevice ==
    [][ /\ pc = "idle" /\ ret' = "skipped" =>
              /\ pc' = "idle"
              /\ primask' = 0
              /\ UNCHANGED <<zx_prepared, zx_prepared_a, zx_prepared_b,
                             sinclair_joystic, GPIOB_8, GPIOB_9, GPIOC_13>>
        /\ pc = "idle" /\ ret = "skipped" /\ HandlerStep =>
              GPIOA_ODR' = Buffer(zx_prepared)[GPIOB_IDR % 256]
        /\ pc = "idle" /\ ret = "skipped" /\ exti_pr => ENABLED EXTI9_5_IRQHandler
      ]_vars

\* C5 witness: after a skipped invocation the handler has answered from the
\* table published by an earlier cycle
C5_Witness ==
    /\ pc = "idle" /\ ret = "skipped"
    /\ Buffer(zx_prepared) # InitTable
    /\ ~exti_pr
    /\ GPIOA_ODR = Buffer(zx_prepared)[GPIOB_IDR]
    /\ GPIOA_ODR # 255

\* the step of a whole invocation that is not skipped: it alone moves the handle
CycleStep == zx_prepared' # zx_prepared

\* C6 (mode controller): the flag starts false; a cycle that is not skipped
\* leaves it false if its matrix has the force-standard position (row 1,
\* bit 5), else true if its matrix has the force-joystick position (row 1,
\* bit 6), else as it was; no other step changes it, so once true it stays
\* true through released and skipped cycles until a force-standard cycle.
C6_ModeController ==
    /\ sinclair_joystic = 0
    /\ [][ /\ IF CycleStep
              THEN sinclair_joystic' =
                       IF HasBit(zx_matrix'[1], 5) THEN 0
                       ELSE IF HasBit(zx_matrix'[1], 6) THEN 1
                       ELSE sinclair_joystic
              ELSE sinclair_joystic' = sinclair_joystic
           /\ sinclair_joystic = 1 /\ ~(CycleStep /\ HasBit(zx_matrix'[1], 5)) =>
                 sinclair_joystic' = 1
         ]_vars

\* C6 witness: after a force-joystick cycle, a cycle with every key released
\* and a skipped invocation, the flag is still true
C6_Witness ==
    /\ sinclair_joystic = 1
    /\ zx_matrix = ZeroMatrix
    /\ info = Keys(<< >>)
    /\ ret = "skipped"

MagicOrder ==
    <<"publish", "led", "reset", "disable_irq", "m1_high", "m1_low", "press",
      "release", "enable_irq">>

\* C7 (magic sequencer): a cycle presses the button exactly when its matrix
\* has the magic position (row 0, bit 6), once, in the order disable
\* interrupts, strobe sampled high, strobe sampled low, press, hold, release,
\* enable interrupts; the handler never runs between the disable and the
\* enable, the button is never asserted with interrupts enabled, and it is
\* released when the cycle returns.
C7_MagicSequence ==
    [][ /\ pc # "idle" /\ pc' = "idle" =>
              wr' = IF HasBit(zx_matrix[0], 6) THEN MagicOrder
                    ELSE <<"publish", "led", "reset">>
        /\ GPIOB_9' # GPIOB_9 =>
              HasBit(zx_matrix[0], 6) /\ primask = 1 /\ primask' = 1
        /\ GPIOB_9 = 1 /\ GPIOB_9' = 0 => wr' = SubSeq(MagicOrder, 1, 7)
        /\ GPIOB_9 = 0 /\ GPIOB_9' = 1 =>
              delay = MAGIC_DELAY /\ wr' = SubSeq(MagicOrder, 1, 8)
        /\ wr' = Append(wr, "m1_high") => GPIOA_6 = 1 /\ wr' = SubSeq(MagicOrder, 1, 5)
        /\ wr' = Append(wr, "m1_low") => GPIOA_6 = 0 /\ wr' = SubSeq(MagicOrder, 1, 6)
        /\ HandlerStep =>
              primask = 0 /\ Count(wr, "disable_irq") = Count(wr, "enable_irq")
        /\ GPIOB_9 = 0 => primask = 1
        /\ pc = "idle" => GPIOB_9 = 1 /\ primask = 0
      ]_vars

\* C7 witness: the button is held, in the middle of the hold, with interrupts
\* disabled and a bus interrupt pending
C7_Witness ==
    /\ pc = "delay" /\ delay = 1
    /\ GPIOB_9 = 0
    /\ primask = 1
    /\ exti_pr

\* C8 (blocking and termination): with the strobe toggling and eventually
\* sampled high and then low, every cycle that has started returns, with
\* interrupts enabled and the button released; outside the two strobe waits a
\* started cycle can always take its next step; in a wait whose strobe level
\* does not change, the poll loop stays in the wait with interrupts disabled,
\* the handler does not run and nothing is published.
C8_BlockingTermination ==
    /\ (pc # "idle") ~> (pc = "idle" /\ primask = 0 /\ GPIOB_9 = 1)
    /\ [][ /\ pc = "wait_high" /\ GPIOA_6 = 0 /\ GPIOA_6' = GPIOA_6 =>
                 /\ pc' = "wait_high" /\ primask' = 1 /\ ~HandlerStep
                 /\ UNCHANGED <<zx_prepared, zx_prepared_a, zx_prepared_b, GPIOA_ODR>>
           /\ pc = "wait_low" /\ GPIOA_6 = 1 /\ GPIOA_6' = GPIOA_6 =>
                 /\ pc' = "wait_low" /\ primask' = 1 /\ ~HandlerStep
                 /\ UNCHANGED <<zx_prepared, zx_prepared_a, zx_prepared_b, GPIOA_ODR>>
           /\ pc \notin {"idle", "wait_high", "wait_low"} => ENABLED PollStep
           /\ pc = "wait_high" /\ GPIOA_6 = 1 => ENABLED MagicWaitHigh
           /\ pc = "wait_low" /\ GPIOA_6 = 0 => ENABLED MagicWaitLow
         ]_vars

\* C8 witness: the poll loop waits for the strobe to go high, interrupts are
\* disabled and a bus interrupt is pending
C8_Witness ==
    /\ pc = "wait_high"
    /\ GPIOA_6 = 0
    /\ primask = 1
    /\ exti_pr

\* a usage code without MatrixKey: its entry is NONE or it lies beyond the table
Unmapped(v) ==
    /\ v \in 4..255
    /\ v >= 102 \/ usb_to_zx[v + 4 + 1] = NONE

\* the report with the unmapped usage codes taken out
WithoutUnmapped(rep) ==
    [rep EXCEPT !.keys = [k \in 1..KEYS_SIZE |-> IF Unmapped(rep.keys[k]) THEN 0 ELSE @[k]]]

UnmappedSlots(rep) == {k \in 1..KEYS_SIZE : Unmapped(rep.keys[k])}

\* C9 (unmapped input): every pressed usage code in 4..255 without MatrixKey
\* sets no matrix bit, the matrix being that of the other keys of the report,
\* and gives one diagnostic, which names the index v + 4 kept in 8 bits; the
\* cycle goes on to the precompute.
C9_UnmappedIgnored ==
    [][ pc = "idle" /\ pc' # "idle" =>
            /\ pc' = "precompute"
            /\ zx_matrix' = MatrixCalculation(WithoutUnmapped(info'), sinclair_joystic).m
            /\ Len(uart') = Cardinality(UnmappedSlots(info'))
            /\ \A k \in UnmappedSlots(info') :
                   \E n \in 1..Len(uart') : uart'[n] = (info'.keys[k] + 4) % 256
      ]_vars

\* the reset position (row 0, bit 5) is set by the usage code of F12 and by no other
ResetOnlyByF12 ==
    \A v \in Byte, joy \in {0, 1} :
        HasBit(MatrixCalculation(Keys(<<v>>), joy).m[0], 5) <=> v = USB_F12

\* C10 (reset line): a cycle drives the reset line once, in the step after the
\* led step that follows the publication; it asserts the line exactly when the
\* matrix of the cycle has the reset position (row 0, bit 5), which is exactly
\* when the usage code of F12 is among the pressed keys of the report.
C10_ResetLine ==
    [][ /\ GPIOB_8' # GPIOB_8 => pc = "reset" /\ pc' = "magic"
        /\ pc = "reset" /\ pc' # "reset" =>
              /\ wr = <<"publish", "led">>
              /\ wr' = <<"publish", "led", "reset">>
              /\ zx_prepared = a
              /\ GPIOB_8' = 0 <=> HasBit(zx_matrix[0], 5)
              /\ HasBit(zx_matrix[0], 5) <=> \E k \in 1..KEYS_SIZE : info.keys[k] = USB_F12
        /\ Count(wr', "reset") # Count(wr, "reset") /\ wr' # << >> => pc = "reset"
        /\ pc # "idle" /\ pc' = "idle" => Count(wr', "reset") = 1
        /\ ResetOnlyByF12
      ]_vars

\* C10 witness: F12 is pressed and the reset line has just been asserted
C10_Witness ==
    /\ pc = "magic"
    /\ info = Keys(<<USB_F12>>)
    /\ GPIOB_8 = 0

\* a key of the report is pressed: a key slot holds a usage code, or a modifier is held
Pressed(rep) ==
    \/ \E k \in 1..KEYS_SIZE : rep.keys[k] >= KEY_A
    \/ \E k \in 1..USB_SHIFTS_COUNT : rep.shifts[k] # 0

\* a usage code with a MatrixKey: it lies in the table and its entry is not NONE
Mapped(v) == v \in 4..255 /\ ~Unmapped(v)

\* a pressed key of the report has a MatrixKey (every modifier has one)
PressedMapped(rep) ==
    \/ \E k \in 1..KEYS_SIZE : Mapped(rep.keys[k])
    \/ \E k \in 1..USB_SHIFTS_COUNT : rep.shifts[k] # 0

\* C11 as claimed: after every cycle that is not skipped the led is on
\* exactly when at least one key or modifier of the report is pressed.
C11_AsClaimed ==
    [][ CycleStep => (GPIOC_13' = 0 <=> Pressed(info')) ]_vars

\* C11 (status indicator, amended): after every cycle that is not skipped
\* the led is on exactly when entry 0 of the table just written differs from
\* 0xFF, which is exactly when the matrix of the cycle has a bit set; it is
\* on when a pressed key or modifier has a MatrixKey and off when nothing is
\* pressed; a cycle whose pressed usage codes all have the entry NONE leaves
\* it off although a key is pressed. No other step writes the led.
C11_StatusIndicator ==
    [][ /\ CycleStep =>
              /\ GPIOC_13' = 0 <=> (Buffer(zx_prepared)[0])' # 255
              /\ GPIOC_13' = 0 <=> zx_matrix' # ZeroMatrix
              /\ PressedMapped(info') => GPIOC_13' = 0
              /\ ~Pressed(info') => GPIOC_13' = 1
              /\ info' = Keys(<<USB_F7>>) => GPIOC_13' = 1
        /\ GPIOC_13' # GPIOC_13 => CycleStep
      ]_vars

\* C11 witness: a cycle with F7 alone, after a cycle that lit the led, has
\* switched the led off and reported the key as unknown
C11_Witness ==
    /\ ret = "done"
    /\ info = Keys(<<USB_F7>>)
    /\ uart = <<USB_F7 + STD_KEYS_OFFSET>>
    /\ GPIOC_13 = 1
    /\ Buffer(zx_prepared) = InitTable
    /\ Buffer(WriteTarget) # InitTable

\* the byte with exactly the bits of S set
ByteOfBits(S) ==
    LET f[c \in 0..8] == IF c = 8 THEN 0 ELSE (IF c \in S THEN 2 ^ c ELSE 0) + f[c + 1]
    IN  f[0]

\* the bitwise OR of two matrices
MatrixOr(m, n) == [r \in 0..7 |-> OrOfRows(<<m[r], n[r]>>, {1, 2})]

\* the matrix with the single bit of the key zx_key, flags left aside
KeyBit(zx_key) == SingleKey((zx_key \div 8) % 8, zx_key % 8)

\* the four directional usage codes
Directions == {USB_RIGHTARROW, USB_LEFTARROW, USB_DOWNARROW, USB_UPARROW}

\* the joystick-emulation key of a directional usage code
JoystickKey(v) ==
    CASE v = USB_RIGHTARROW -> ZX_7
      [] v = USB_LEFTARROW  -> ZX_6
      [] v = USB_DOWNARROW  -> ZX_8
      [] v = USB_UPARROW    -> ZX_9

\* the bits of the joystick-emulation keys of the directional codes of a report
JoystickMatrix(rep) ==
    [r \in 0..7 |->
        ByteOfBits({c \in 0..7 : \E k \in 1..KEYS_SIZE :
                       /\ rep.keys[k] \in Directions
                       /\ HasBit(KeyBit(JoystickKey(rep.keys[k]))[r], c)})]

\* the report with the directional usage codes taken out
WithoutDirections(rep) ==
    [rep EXCEPT !.keys = [k \in 1..KEYS_SIZE |-> IF rep.keys[k] \in Directions THEN 0 ELSE @[k]]]

\* the step of the matrix calculation and the mode update
BuildStep == pc = "idle" /\ pc' = "precompute"

\* C12 (joystick overlay): in a cycle that starts with the mode flag true, a
\* directional usage code contributes the bit of its joystick key (right 7,
\* left 6, down 8, up 9) and nothing else: the matrix is that bit together
\* with the standard-mode matrix of the other keys and modifiers of the
\* report, and no diagnostic is added; alone it gives exactly that one bit,
\* without the bit of its cursor key and without CAPS; a report without a
\* directional code gives the matrix and diagnostics of standard mode.
C12_JoystickOverlay ==
    [][ BuildStep /\ sinclair_joystic = 1 =>
            /\ zx_matrix' = MatrixOr(MatrixCalculation(WithoutDirections(info'), 0).m,
                                      JoystickMatrix(info'))
            /\ uart' = MatrixCalculation(WithoutDirections(info'), 0).out
            /\ \A v \in Directions :
                   info' = Keys(<<v>>) =>
                       /\ zx_matrix' = KeyBit(JoystickKey(v))
                       /\ zx_matrix' # MatrixCalculation(info', 0).m
                       /\ ZxMatrixGet(zx_matrix', ZX_CAPS) = 0
                       /\ ZxMatrixGet(zx_matrix', usb_to_zx[v + STD_KEYS_OFFSET + 1]) = 0
            /\ (\A k \in 1..KEYS_SIZE : info'.keys[k] \notin Directions) =>
                   zx_matrix' = MatrixCalculation(info', 0).m
      ]_vars

\* C12 witness: in joystick mode the right arrow held together with the left
\* shift has given the bit of key 7 (row 4, column 3) and the CAPS bit of the
\* shift, and no bit of key 8
C12_Witness ==
    /\ pc = "precompute"
    /\ info = ModKeys(2, <<USB_RIGHTARROW>>)
    /\ zx_matrix = MatrixOr(SingleKey(4, 3), SingleKey(0, 0))
    /\ ZxMatrixGet(zx_matrix, ZX_8) = 0
    /\ uart = << >>

\* the MatrixKey of a usage code that has one
MatrixKeyOf(v) == usb_to_zx[v + STD_KEYS_OFFSET + 1]

\* the MatrixKeys of the pressed keys of a report that have one: those of its
\* mapped usage codes and those of its modifiers
PressedMatrixKeys(rep) ==
    {MatrixKeyOf(rep.keys[k]) : k \in {n \in 1..KEYS_SIZE : Mapped(rep.keys[n])}}
        \cup {usb_to_zx[k] : k \in {n \in 1..USB_SHIFTS_COUNT : rep.shifts[n] # 0}}

\* the MatrixKey carries the CAPS flag, the SYMBOL flag
CapFlag(zx_key) == (zx_key \div 128) % 2 = 1

SymFlag(zx_key) == (zx_key \div 64) % 2 = 1

\* the bits a MatrixKey stands for: its own, and those of its flags
InjectedBits(zx_key) ==
    MatrixOr(KeyBit(zx_key),
             MatrixOr(IF CapFlag(zx_key) THEN KeyBit(ZX_CAPS) ELSE ZeroMatrix,
                      IF SymFlag(zx_key) THEN KeyBit(ZX_SYM) ELSE ZeroMatrix))

\* every bit of matrix n is set in matrix m
Covers(m, n) == MatrixOr(m, n) = m

\* C13 as claimed: whenever a usage code whose MatrixKey carries the CAPS
\* flag is among the pressed keys of a build, the matrix has the bit of the
\* key and the bit of CAPS, and alone exactly these two; likewise for SYMBOL.
C13_AsClaimed ==
    [][ BuildStep =>
            \A k \in 1..KEYS_SIZE :
                LET v == info'.keys[k] IN
                Mapped(v) /\ (CapFlag(MatrixKeyOf(v)) \/ SymFlag(MatrixKeyOf(v))) =>
                    /\ Covers(zx_matrix', InjectedBits(MatrixKeyOf(v)))
                    /\ info' = Keys(<<v>>) => zx_matrix' = InjectedBits(MatrixKeyOf(v))
      ]_vars

\* C13 (modifier injection, amended): in a build in standard mode, and in
\* joystick mode for every usage code other than the four directional codes,
\* a pressed usage code or modifier whose MatrixKey carries the CAPS flag
\* sets the bit of the key and the bit of CAPS, never one without the other,
\* and alone exactly these; likewise the SYMBOL flag and the bit of SYMBOL.
\* In joystick mode a directional code, whose MatrixKey carries the CAPS
\* flag, sets only the bit of its joystick key: alone, no CAPS bit.
C13_ModifierInjection ==
    [][ BuildStep =>
            /\ \A k \in 1..KEYS_SIZE :
                   LET v == info'.keys[k] IN
                   /\ Mapped(v)
                   /\ CapFlag(MatrixKeyOf(v)) \/ SymFlag(MatrixKeyOf(v))
                   /\ sinclair_joystic = 0 \/ v \notin Directions
                   => /\ Covers(zx_matrix', InjectedBits(MatrixKeyOf(v)))
                      /\ info' = Keys(<<v>>) => zx_matrix' = InjectedBits(MatrixKeyOf(v))
            /\ \A k \in 1..USB_SHIFTS_COUNT :
                   info'.shifts[k] # 0 =>
                       /\ Covers(zx_matrix', InjectedBits(usb_to_zx[k]))
                       /\ info' = ModKeys(k, << >>) => zx_matrix' = InjectedBits(usb_to_zx[k])
            /\ \A v \in Directions :
                   sinclair_joystic = 1 /\ info' = Keys(<<v>>) =>
                       /\ CapFlag(MatrixKeyOf(v))
                       /\ ZxMatrixGet(zx_matrix', ZX_CAPS) = 0
                       /\ zx_matrix' = KeyBit(JoystickKey(v))
      ]_vars

\* C13 witness: in standard mode the right arrow alone has given the bit of
\* key 8 (row 4, column 2) and the bit of CAPS (row 0, column 0)
C13_Witness ==
    /\ pc = "precompute"
    /\ sinclair_joystic = 0
    /\ info = Keys(<<USB_RIGHTARROW>>)
    /\ zx_matrix = MatrixOr(SingleKey(4, 2), SingleKey(0, 0))

\* the report with its key slots rearranged by the permutation p
Permuted(rep, p) == [rep EXCEPT !.keys = [k \in 1..KEYS_SIZE |-> rep.keys[p[k]]]]

\* the matrix calculation with the two loops of lines 240-245 exchanged
KeysBeforeShifts(rep, joy) ==
    ShiftsLoop(KeysLoop([m |-> ZeroMatrix, out |-> << >>], rep, 0, joy), rep, 0, joy)

\* every pressed usage code of the report has a MatrixKey
AllMapped(rep) == \A k \in 1..KEYS_SIZE : rep.keys[k] >= KEY_A => Mapped(rep.keys[k])

\* the report with every repetition of a usage code taken out
WithoutRepeats(rep) ==
    [rep EXCEPT !.keys = [k \in 1..KEYS_SIZE |->
                            IF \E n \in 1..(k - 1) : rep.keys[n] = rep.keys[k] THEN 0 ELSE @[k]]]

\* C14 (order independence): for a report whose pressed usage codes are all
\* mapped, in either mode, the matrix built is the one built from every
\* permutation of the key slots, and the one built with the standard keys
\* processed before the modifiers, so the mode flag after the cycle is the
\* same too; processing a pressed key or modifier once more leaves the matrix
\* as it is, and a usage code held in two slots gives the matrix of one.
C14_OrderIndependence ==
    [][ BuildStep /\ AllMapped(info') =>
            /\ \A p \in Permutations(1..KEYS_SIZE) :
                   MatrixCalculation(Permuted(info', p), sinclair_joystic).m = zx_matrix'
            /\ KeysBeforeShifts(info', sinclair_joystic).m = zx_matrix'
            /\ Modes(KeysBeforeShifts(info', sinclair_joystic).m, sinclair_joystic)
                   = sinclair_joystic'
            /\ MatrixCalculation(WithoutRepeats(info'), sinclair_joystic).m = zx_matrix'
            /\ \A k \in 1..KEYS_SIZE :
                   info'.keys[k] >= KEY_A =>
                       ZxMatrixSetUsb([m |-> zx_matrix', out |-> << >>],
                                      U8(STD_KEYS_OFFSET + info'.keys[k]),
                                      sinclair_joystic).m = zx_matrix'
            /\ \A k \in 1..USB_SHIFTS_COUNT :
                   info'.shifts[k] # 0 =>
                       ZxMatrixSetUsb([m |-> zx_matrix', out |-> << >>], k - 1,
                                      sinclair_joystic).m = zx_matrix'
      ]_vars

\* C14 witness: in joystick mode the left shift, the letter A in two slots
\* and the letter S of the same row: the matrix has the bits of A and S in
\* row 1 and the bit of CAPS, three in all
C14_Witness ==
    /\ pc = "precompute"
    /\ sinclair_joystic = 1
    /\ info = ModKeys(2, <<USB_A, USB_A, USB_S>>)
    /\ zx_matrix = MatrixOr(MatrixOr(KeyBit(ZX_A), KeyBit(ZX_S)), KeyBit(ZX_CAPS))
    /\ zx_matrix[1] = 3
    /\ Cardinality({rc \in (0..7) \X (0..7) : HasBit(zx_matrix[rc[1]], rc[2])}) = 3

\* the usage code v is in a key slot of the report
Holds(rep, v) == \E k \in 1..KEYS_SIZE : rep.keys[k] = v

\* C15 as claimed: every row of the matrix has only bits 0..4 possibly set.
C15_AsClaimed == \A r \in 0..7 : zx_matrix[r] < 32

\* C15 (matrix column range, amended): in the matrix built by a cycle, bit 7
\* of every row is zero and rows 2..7 have only bits 0..4 possibly set; bits
\* 5 and 6 of rows 0 and 1 are the four reserved positions: row 0 bit 5 is
\* set exactly when F12 is pressed, row 0 bit 6 when F10, row 1 bit 5 when
\* F5, row 1 bit 6 when F6, in either mode and whatever modifiers are held.
C15_ColumnRange ==
    /\ \A r \in 0..7 : zx_matrix[r] < 128
    /\ \A r \in 2..7 : zx_matrix[r] < 32
    /\ HasBit(zx_matrix[0], 5) <=> Holds(info, USB_F12)
    /\ HasBit(zx_matrix[0], 6) <=> Holds(info, USB_F10)
    /\ HasBit(zx_matrix[1], 5) <=> Holds(info, USB_F5)
    /\ HasBit(zx_matrix[1], 6) <=> Holds(info, USB_F6)

\* C15 witness: F6 and the letter A have given row 1 the bits 6 and 0
C15_Witness ==
    /\ pc = "precompute"
    /\ info = Keys(<<USB_F6, USB_A>>)
    /\ zx_matrix = [SingleKey(1, 6) EXCEPT ![1] = 65]

\* C16 (all released): a cycle that is not skipped and whose report has no
\* key and no modifier pressed publishes a table whose entries 0..254 are all
\* 0xFF, whatever the buffer it has written held before and whichever of the
\* two buffers it is; its matrix is zero and the led goes off.
C16_AllReleased ==
    [][ CycleStep /\ ~Pressed(info') =>
            /\ \A k \in 0..254 : (Buffer(zx_prepared)[k])' = 255
            /\ zx_matrix' = ZeroMatrix
            /\ GPIOC_13' = 1
      ]_vars

\* C16 witness: a released cycle has published buffer b, all 0xFF, over the
\* table of an earlier cycle, while buffer a still holds the table of the
\* letter A
C16_Witness ==
    /\ ret = "done"
    /\ info = Keys(<< >>)
    /\ zx_prepared = "b"
    /\ \A k \in 0..254 : zx_prepared_b[k] = 255
    /\ zx_prepared_a[253] = 254
    /\ zx_prepared_a[0] = 254

\* C17 (end-to-end bus response): whenever the handler runs with the address
\* value s sampled, the byte it writes to the data bus is the complement of
\* the OR of the rows, whose bit in s is 0, of the matrix of the cycle that
\* published last, the zero matrix before the first publication; s = 0x00
\* selects all eight rows and s = 0xFF none. A cycle that has built its
\* matrix but not published yet does not show.
C17_BusResponse ==
    [][ HandlerStep =>
            /\ GPIOA_ODR' = 255 - OrOfRows(published_matrix, RowsClearIn(GPIOB_IDR % 256))
            /\ GPIOB_IDR % 256 = 0 => GPIOA_ODR' = 255 - OrOfRows(published_matrix, 0..7)
            /\ GPIOB_IDR % 256 = 255 => GPIOA_ODR' = 255
      ]_vars

\* C17 witness: with all rows selected the handler has answered with the
\* byte of the published matrix while the poll loop is rewriting the other
\* buffer from a matrix that would have given another byte
C17_Witness ==
    /\ ~exti_pr
    /\ GPIOB_IDR = 0
    /\ pc = "precompute" /\ 0 < i /\ i < LoopEnd
    /\ published_matrix # ZeroMatrix
    /\ GPIOA_ODR = 255 - OrOfRows(published_matrix, 0..7)
    /\ GPIOA_ODR # 255 - OrOfRows(zx_matrix, 0..7)
    /\ GPIOA_ODR # Buffer(a)[0]

\* C18 (placeholder usage code): a cycle whose report holds the usage code
\* 0x64 alone, the code whose entry in the mapping table is the literal 0,
\* gives no diagnostic, the zero matrix and a table of 0xFF.
C18_PlaceholderIgnored ==
    [][ CycleStep /\ info' = Keys(<<USB_NONUS_BACKSLASH>>) =>
            /\ uart' = << >>
            /\ zx_matrix' = ZeroMatrix
            /\ \A k \in 0..254 : (Buffer(zx_prepared)[k])' = 255
      ]_vars

\* C19 (index 255): entry 255 of both buffers is 0xFF in every state; the
\* precompute loop writes the entries 0..254 and no other; a handler firing
\* that samples the address 0xFF drives 0xFF, whatever is or was pressed and
\* whichever buffer is published.
C19_Index255 ==
    /\ [](zx_prepared_a[255] = 255 /\ zx_prepared_b[255] = 255)
    /\ [][ /\ pc = "precompute" /\ i' # i => i' = i + 1 /\ i <= 254
           /\ pc # "precompute" => UNCHANGED <<zx_prepared_a, zx_prepared_b>>
           /\ HandlerStep /\ GPIOB_IDR % 256 = 255 => GPIOA_ODR' = 255
         ]_vars

\* C19 witness: both buffers have been rewritten with keys pressed, entry 255
\* of both is still 0xFF, and the data bus holds 0xFF for the address 0xFF
\* although the published table answers every other address with a key
C19_Witness ==
    /\ zx_prepared_a[254] # 255 /\ zx_prepared_b[254] # 255
    /\ zx_prepared_a[255] = 255 /\ zx_prepared_b[255] = 255
    /\ zx_prepared = "b"
    /\ pc = "idle"
    /\ ~exti_pr
    /\ GPIOB_IDR = 255
    /\ GPIOA_ODR = 255

\* the table of the matrix m, entries 0..254
TableOf(m, tab) == \A k \in 0..254 : tab[k] = 255 - OrOfRows(m, RowsClearIn(k))

\* C20 (mode change one cycle late): the matrix of a cycle is built with the
\* mode flag as the cycle found it, the flag is updated from that matrix
\* afterwards and the matrix is not built again; a skipped invocation leaves
\* the flag alone. A cycle in standard mode with force-joystick and the right
\* arrow gives the cursor mapping of the arrow (key 8) with CAPS, publishes
\* the table of that matrix and sets the flag; the same report in the next
\* cycle gives the joystick key 7 without CAPS. Symmetrically a cycle in
\* joystick mode with force-standard and the right arrow gives key 7 and
\* clears the flag, and the next gives key 8 with CAPS.
C20_ModeOneCycleLate ==
    [][ /\ CycleStep =>
              /\ zx_matrix' = MatrixCalculation(info', sinclair_joystic).m
              /\ TableOf(zx_matrix', (Buffer(zx_prepared))')
              /\ sinclair_joystic = 0 /\ info' = Keys(<<USB_F6, USB_RIGHTARROW>>) =>
                     /\ zx_matrix' = MatrixOr(KeyBit(ZX_SINJO),
                                               MatrixOr(KeyBit(ZX_8), KeyBit(ZX_CAPS)))
                     /\ sinclair_joystic' = 1
              /\ sinclair_joystic = 1 /\ info' = Keys(<<USB_F6, USB_RIGHTARROW>>) =>
                     /\ zx_matrix' = MatrixOr(KeyBit(ZX_SINJO), KeyBit(ZX_7))
                     /\ sinclair_joystic' = 1
              /\ sinclair_joystic = 1 /\ info' = Keys(<<USB_F5, USB_RIGHTARROW>>) =>
                     /\ zx_matrix' = MatrixOr(KeyBit(ZX_CURJO), KeyBit(ZX_7))
                     /\ sinclair_joystic' = 0
              /\ sinclair_joystic = 0 /\ info' = Keys(<<USB_F5, USB_RIGHTARROW>>) =>
                     /\ zx_matrix' = MatrixOr(KeyBit(ZX_CURJO),
                                               MatrixOr(KeyBit(ZX_8), KeyBit(ZX_CAPS)))
                     /\ sinclair_joystic' = 0
        /\ ~CycleStep => sinclair_joystic' = sinclair_joystic
      ]_vars

\* C20 witness: force-joystick and the right arrow held for two cycles from
\* standard mode: the published table of the second cycle answers row 4 with
\* key 7 (column 3), the other buffer holds the table of the first cycle,
\* which answers row 4 with key 8 (column 2) and row 0 with CAPS
C20_Witness ==
    /\ ret = "done"
    /\ info = Keys(<<USB_F6, USB_RIGHTARROW>>)
    /\ sinclair_joystic = 1
    /\ zx_matrix = MatrixOr(KeyBit(ZX_SINJO), KeyBit(ZX_7))
    /\ Buffer(zx_prepared)[239] = 255 - 8
    /\ Buffer(zx_prepared)[254] = 255
    /\ Buffer(WriteTarget)[239] = 255 - 4
    /\ Buffer(WriteTarget)[254] = 254
    /\ Buffer(WriteTarget)[253] = 255 - 64

====
